---- MODULE Spec2Model ----
(***************************************************************************)
(* PaymentService (src/PaymentService/main.py): the in-memory payment      *)
(* intent store and its three request handlers, create_payment_intent,     *)
(* get_payment and payment_webhook.                                        *)
(*                                                                         *)
(* The handlers are plain `def` routes, so the framework runs each request *)
(* on a thread of its pool, and requests in flight run concurrently.  A    *)
(* handler is modelled as the sequence of its accesses to the shared       *)
(* store: a step of a request is atomic (one dictionary operation under    *)
(* the interpreter lock), and the steps of different requests interleave   *)
(* freely.  The dict stored under an id and the handler's local `record`   *)
(* are one object, so a handler that holds a record holds a reference (the *)
(* id) into PAYMENT_STORE.                                                 *)
(*                                                                         *)
(* Requests are numbered in the order in which their handlers start.       *)
(*                                                                         *)
(* Optional values (Optional[float], Optional[str], the result of          *)
(* dict.get) are sets of at most one element: {} is None, {v} is v.        *)
(***************************************************************************)
EXTENDS Integers, FiniteSets, Sequences, TLC

(* ------------------------------ bounds -------------------------------- *)

\* Requests served in a run, each on a thread of its own.
MaxRequests == 3

\* The readings of the wall clock are 0..MaxClock.
MaxClock == 1

(* ------------------------------ values -------------------------------- *)

Requests == 1..MaxRequests

\* The values of uuid.uuid4(): a creation draws two, so there are enough for
\* every request to be a creation.
UuidSpace == 1..(2 * MaxRequests)

None == {}

Some(v) == {v}

\* PaymentStatus, main.py:32-40.
PaymentStatus ==
    [ REQUIRES_PAYMENT_METHOD |-> "requires_payment_method",
      REQUIRES_CONFIRMATION   |-> "requires_confirmation",
      PROCESSING              |-> "processing",
      SUCCEEDED               |-> "succeeded",
      FAILED                  |-> "failed",
      CANCELLED               |-> "cancelled",
      REFUNDED                |-> "refunded" ]

\* The values WebhookEvent.type admits, main.py:83-89.
EventTypes ==
    { "payment_intent.succeeded", "payment_intent.failed",
      "payment_intent.processing", "payment_intent.canceled",
      "payment_intent.refunded" }

\* An event type outside the recognised ones, as a direct caller of the
\* handler can pass it.
OtherEventTypes == { "payment_intent.created" }

\* The payloads of the creations: an amount that is absent, zero and
\* negative, a currency that is absent, empty and given.
Payloads ==
    { [ orderId |-> "ord-1", method |-> "card", amount |-> None,
        currency |-> None ],
      [ orderId |-> "ord-2", method |-> "upi",  amount |-> Some(0),
        currency |-> Some("") ],
      [ orderId |-> "ord-1", method |-> "cod",  amount |-> Some(-5),
        currency |-> Some("USD") ] }

\* The orderId an event carries; it need not be the orderId of the record.
EventOrderIds == { Some("ord-2") }

\* The metadata an event carries.
EventMetadata == { Some([ source |-> "gateway" ]) }

\* _default_amount, main.py:100-102.
_default_amount == 100

VARIABLES
    PAYMENT_STORE,  \* main.py:21: id -> record (the dict objects of the store)
    pc,             \* request -> "new", the line its handler executes next, "done"
    frame,          \* request -> the locals of its handler while it runs
    resp,           \* request -> the call and the response it was given
    clock,          \* the latest reading _now() has returned
    issued,         \* the values uuid4() has returned so far
    created,        \* id -> the PaymentIntent the creation returned
    applied,        \* id -> number of status assignments made (main.py:195)
    committed       \* id -> the status of the latest assignment (main.py:195)
                    \*       a webhook made to the record, None before the first

vars ==
    << PAYMENT_STORE, pc, frame, resp, clock, issued, created, applied, committed >>

(* ------------------------------ helpers ------------------------------- *)

\* Mutant of _now: a clock whose readings are not ordered in time (local
\* wall time across a change of zone, say).
_now_unordered == 0..MaxClock

\* _now, main.py:95-97: the readings the next call of _now() can return.  The
\* clock does not run backwards: the reading is the latest one again (no
\* time has passed that the resolution of the clock shows) or a later one.
\* The handlers only compare and copy stamps, so a later reading is the
\* next one.
_now == { clock, clock + 1 } \cap (0..MaxClock)

\* Mutant of uuid4: a generator that can return a value again.
uuid4_repeating(used) == UuidSpace

\* The values a call of uuid.uuid4() can return when it has returned the
\* values in used: a value it has not returned before.  The handlers use a
\* uuid as a key and inside the client secret only, so runs that differ in
\* which fresh value was drawn are the same up to renaming: the least one
\* stands for them.
uuid4(used) ==
    { u \in UuidSpace \ used : \A v \in UuidSpace \ used : u <= v }

\* uuid.hex[:16], main.py:126: the leading half of the digits of a uuid.
Hex16(u) == u \div 2

\* The f-string of main.py:126.
ClientSecret(intent_id, u) == << "pi_", intent_id, "_secret_", Hex16(u) >>

\* Python truthiness of an Optional[str]: None and "" are falsy.
Falsy(opt) == opt = None \/ opt = Some("")

\* The one element of a non-empty optional.
The(opt) == CHOOSE v \in opt : TRUE

\* Mutant of NewRecord: the creation starts from the first status of the
\* enumeration.
NewRecord_first_status(intent_id, payload, created_at, secret_uuid) ==
    [ id           |-> intent_id,
      orderId      |-> payload.orderId,
      amount       |-> IF payload.amount # None THEN The(payload.amount)
                                                ELSE _default_amount,
      currency     |-> IF Falsy(payload.currency) THEN "INR"
                                                  ELSE The(payload.currency),
      status       |-> PaymentStatus.REQUIRES_PAYMENT_METHOD,
      provider     |-> "mockpay",
      clientSecret |-> ClientSecret(intent_id, secret_uuid),
      createdAt    |-> created_at,
      updatedAt    |-> created_at ]

\* Mutant of NewRecord: the amount is defaulted like the currency,
\* payload.amount or _default_amount().
NewRecord_amount_or(intent_id, payload, created_at, secret_uuid) ==
    [ id           |-> intent_id,
      orderId      |-> payload.orderId,
      amount       |-> IF payload.amount \in { None, Some(0) }
                         THEN _default_amount ELSE The(payload.amount),
      currency     |-> IF Falsy(payload.currency) THEN "INR"
                                                  ELSE The(payload.currency),
      status       |-> PaymentStatus.REQUIRES_CONFIRMATION,
      provider     |-> "mockpay",
      clientSecret |-> ClientSecret(intent_id, secret_uuid),
      createdAt    |-> created_at,
      updatedAt    |-> created_at ]

\* main.py:121-138: the record a creation builds from its payload.
NewRecord(intent_id, payload, created_at, secret_uuid) ==
    [ id           |-> intent_id,
      orderId      |-> payload.orderId,
      amount       |-> IF payload.amount # None THEN The(payload.amount)
                                                ELSE _default_amount,
      currency     |-> IF Falsy(payload.currency) THEN "INR"
                                                  ELSE The(payload.currency),
      status       |-> PaymentStatus.REQUIRES_CONFIRMATION,
      provider     |-> "mockpay",
      clientSecret |-> ClientSecret(intent_id, secret_uuid),
      createdAt    |-> created_at,
      updatedAt    |-> created_at ]

\* PaymentIntent(**record), main.py:59-77: the response model, a copy of the
\* nine fields of the record taken when the handler returns.
PaymentIntent(record) ==
    [ id           |-> record.id,
      orderId      |-> record.orderId,
      amount       |-> record.amount,
      currency     |-> record.currency,
      status       |-> record.status,
      provider     |-> record.provider,
      clientSecret |-> record.clientSecret,
      createdAt    |-> record.createdAt,
      updatedAt    |-> record.updatedAt ]

\* Mutant of StoreGet: a lookup that falls back on the records there are.
StoreGet_fallback(paymentId) ==
    IF paymentId \in DOMAIN PAYMENT_STORE THEN { paymentId }
                                          ELSE DOMAIN PAYMENT_STORE

\* PAYMENT_STORE.get(paymentId), main.py:158 and 179: a reference to the
\* stored dict, or None.
StoreGet(paymentId) == { paymentId } \cap DOMAIN PAYMENT_STORE

\* Mutant of StorePut: the store is rebound to a dict that holds the one
\* record, PAYMENT_STORE = {key: record}.
StorePut_rebound(key, record) == [ k \in { key } |-> record ]

\* PAYMENT_STORE[key] = record, main.py:140 and 200.
StorePut(key, record) ==
    [ k \in DOMAIN PAYMENT_STORE \cup { key } |->
        IF k = key THEN record ELSE PAYMENT_STORE[k] ]

\* Mutant of status_map: the status of payment_intent.canceled is spelt like
\* the event.
status_map_canceled ==
    [ e \in EventTypes |->
        CASE e = "payment_intent.succeeded"  -> PaymentStatus.SUCCEEDED
          [] e = "payment_intent.failed"     -> PaymentStatus.FAILED
          [] e = "payment_intent.processing" -> PaymentStatus.PROCESSING
          [] e = "payment_intent.canceled"   -> "canceled"
          [] e = "payment_intent.refunded"   -> PaymentStatus.REFUNDED ]

\* Mutant of status_map: a failed payment goes back to asking for a payment
\* method.
status_map_retry ==
    [ e \in EventTypes |->
        CASE e = "payment_intent.succeeded"  -> PaymentStatus.SUCCEEDED
          [] e = "payment_intent.failed"     -> PaymentStatus.REQUIRES_PAYMENT_METHOD
          [] e = "payment_intent.processing" -> PaymentStatus.PROCESSING
          [] e = "payment_intent.canceled"   -> PaymentStatus.CANCELLED
          [] e = "payment_intent.refunded"   -> PaymentStatus.REFUNDED ]

\* status_map, main.py:183-189.
status_map ==
    [ e \in EventTypes |->
        CASE e = "payment_intent.succeeded"  -> PaymentStatus.SUCCEEDED
          [] e = "payment_intent.failed"     -> PaymentStatus.FAILED
          [] e = "payment_intent.processing" -> PaymentStatus.PROCESSING
          [] e = "payment_intent.canceled"   -> PaymentStatus.CANCELLED
          [] e = "payment_intent.refunded"   -> PaymentStatus.REFUNDED ]

\* Mutant of StatusMapGet: a lookup with a default, status_map.get(type, PROCESSING).
StatusMapGet_default(type) ==
    IF type \in DOMAIN status_map THEN Some(status_map[type])
                                  ELSE Some(PaymentStatus.PROCESSING)

\* status_map.get(event.type), main.py:191.
StatusMapGet(type) ==
    IF type \in DOMAIN status_map THEN Some(status_map[type]) ELSE None

\* Mutant of SetStatus: the assignment is lost.
SetStatus_lost(record, new_status) == record

\* Mutant of SetStatus: a settled intent (succeeded, refunded, cancelled) keeps
\* its status.
SetStatus_guarded(record, new_status) ==
    IF record.status \in { PaymentStatus.SUCCEEDED, PaymentStatus.REFUNDED,
                           PaymentStatus.CANCELLED }
      THEN record
      ELSE [ record EXCEPT !.status = new_status ]

\* record["status"] = new_status, main.py:195.
SetStatus(record, new_status) == [ record EXCEPT !.status = new_status ]

\* Mutant of SetUpdatedAt: the record is not stamped.
SetUpdatedAt_kept(record, now) == record

\* Mutant of SetUpdatedAt: the stamp goes to the wrong key.
SetUpdatedAt_created(record, now) == [ record EXCEPT !.createdAt = now ]

\* record["updatedAt"] = _now(), main.py:196.
SetUpdatedAt(record, now) == [ record EXCEPT !.updatedAt = now ]

(* ------------------------------ requests ------------------------------ *)

\* The ids a caller can send: the ids creations have returned (a uuid4 is
\* not guessable before it is returned) and an id that names no intent.
RequestIds == DOMAIN created \cup { 0 }

Events ==
    [ type      : EventTypes \cup OtherEventTypes,
      paymentId : RequestIds,
      orderId   : EventOrderIds,
      metadata  : EventMetadata ]

Idle == [ op |-> "none" ]

\* History: the webhook calls on paymentId that have returned the record.
Returned(paymentId) ==
    { w \in Requests : resp[w].op = "webhook" /\ resp[w].code = 200
                        /\ resp[w].paymentId = paymentId }

\* Request t starts: the requests before it have started.
Starts(t) == pc[t] = "new" /\ \A r \in Requests : r < t => pc[r] # "new"

(* ------------------------------- Init --------------------------------- *)

Init ==
    /\ PAYMENT_STORE = << >>
    /\ pc = [ t \in Requests |-> "new" ]
    /\ frame = [ t \in Requests |-> Idle ]
    /\ resp = [ t \in Requests |-> Idle ]
    /\ clock = 0
    /\ issued = {}
    /\ created = << >>
    /\ applied = << >>
    /\ committed = << >>

(* ------------------------ create_payment_intent ----------------------- *)

\* main.py:119-138: draw the id and the secret, read the clock, build the record.
CreateBegin(t) ==
    /\ Starts(t)
    /\ \E payload \in Payloads : \E intent_id \in uuid4(issued) :
         \E created_at \in _now : \E secret_uuid \in uuid4(issued \cup { intent_id }) :
            /\ frame' = [ frame EXCEPT ![t] =
                 [ op |-> "create", payload |-> payload,
                   record |-> NewRecord(intent_id, payload, created_at, secret_uuid) ] ]
            /\ issued' = issued \cup { intent_id, secret_uuid }
            /\ clock' = created_at
    /\ pc' = [ pc EXCEPT ![t] = "create_store" ]
    /\ UNCHANGED << PAYMENT_STORE, resp, created, applied, committed >>

\* main.py:140: PAYMENT_STORE[intent_id] = record.
CreateStore(t) ==
    /\ pc[t] = "create_store"
    /\ LET record == frame[t].record IN
         /\ PAYMENT_STORE' = StorePut(record.id, record)
         /\ applied' = [ k \in DOMAIN applied \cup { record.id } |->
                           IF k \in DOMAIN applied THEN applied[k] ELSE 0 ]
         /\ committed' = [ k \in DOMAIN committed \cup { record.id } |->
                             IF k \in DOMAIN committed THEN committed[k] ELSE None ]
         /\ frame' = [ frame EXCEPT ![t] =
                [ op |-> "create", payload |-> frame[t].payload, ref |-> record.id ] ]
    /\ pc' = [ pc EXCEPT ![t] = "create_return" ]
    /\ UNCHANGED << resp, clock, issued, created >>

\* main.py:141: return PaymentIntent(**record).
CreateReturn(t) ==
    /\ pc[t] = "create_return"
    /\ LET body == PaymentIntent(PAYMENT_STORE[frame[t].ref]) IN
         /\ resp' = [ resp EXCEPT ![t] =
                        [ op |-> "create", payload |-> frame[t].payload,
                          code |-> 201, body |-> body ] ]
         /\ created' = [ k \in DOMAIN created \cup { body.id } |->
                           IF k = body.id THEN body ELSE created[k] ]
    /\ pc' = [ pc EXCEPT ![t] = "done" ]
    /\ frame' = [ frame EXCEPT ![t] = Idle ]
    /\ UNCHANGED << PAYMENT_STORE, clock, issued, applied, committed >>

(* ----------------------------- get_payment ---------------------------- *)

\* Mutant of get_payment: the handler answers from the response the creation
\* gave (a cached copy) instead of the stored record.
get_payment_cached(t) ==
    /\ Starts(t)
    /\ \E paymentId \in RequestIds :
         LET record == StoreGet(paymentId) IN
           IF record = None
             THEN resp' = [ resp EXCEPT ![t] =
                      [ op |-> "get", paymentId |-> paymentId, code |-> 404,
                        detail |-> "Payment not found" ] ]
             ELSE resp' = [ resp EXCEPT ![t] =
                      [ op |-> "get", paymentId |-> paymentId, code |-> 200,
                        body |-> created[paymentId],
                        after |-> Returned(paymentId) ] ]
    /\ pc' = [ pc EXCEPT ![t] = "done" ]
    /\ UNCHANGED << PAYMENT_STORE, frame, clock, issued, created, applied, committed >>

\* main.py:158-161: look the record up, 404 when there is none, else return
\* PaymentIntent(**record).  One step: the lookup of an id a caller can send
\* gives the same result at line 158 as at line 161 (a record is never
\* removed and the id of a record is known to callers only once it is stored),
\* and the fields are read at line 161.  The response keeps, as history,
\* which webhook calls on the id had returned by then.
get_payment(t) ==
    /\ Starts(t)
    /\ \E paymentId \in RequestIds :
         LET record == StoreGet(paymentId) IN
           IF record = None
             THEN resp' = [ resp EXCEPT ![t] =
                      [ op |-> "get", paymentId |-> paymentId, code |-> 404,
                        detail |-> "Payment not found" ] ]
             ELSE resp' = [ resp EXCEPT ![t] =
                      [ op |-> "get", paymentId |-> paymentId, code |-> 200,
                        body |-> PaymentIntent(PAYMENT_STORE[The(record)]),
                        after |-> Returned(paymentId) ] ]
    /\ pc' = [ pc EXCEPT ![t] = "done" ]
    /\ UNCHANGED << PAYMENT_STORE, frame, clock, issued, created, applied, committed >>

(* --------------------------- payment_webhook -------------------------- *)

\* Mutant of WebhookOutcome: the event type is checked before the record.
WebhookOutcome_type_first(record, new_status) ==
    IF Falsy(new_status) THEN 400
    ELSE IF record = None THEN 404
    ELSE 200

\* main.py:180-193: the status the checks of the handler end with, 200 when
\* both pass; the record is checked before the event type.
WebhookOutcome(record, new_status) ==
    IF record = None THEN 404
    ELSE IF Falsy(new_status) THEN 400
    ELSE 200

\* main.py:179-195: look the record up (404 when there is none), map the
\* event type (400 when the map has no entry for it), then
\* record["status"] = new_status.  One step: lines 179-193 read nothing of
\* the record, and the lookup of an id a caller can send gives the same dict
\* whenever it runs.  The frame keeps the status and the updatedAt the record
\* had before the assignment.
WebhookStatus(t) ==
    /\ Starts(t)
    /\ \E event \in Events :
         LET record     == StoreGet(event.paymentId)
             new_status == StatusMapGet(event.type)
             outcome    == WebhookOutcome(record, new_status)
         IN
           IF outcome = 404
             THEN /\ resp' = [ resp EXCEPT ![t] =
                      [ op |-> "webhook", type |-> event.type,
                        paymentId |-> event.paymentId, code |-> 404,
                        detail |-> "Payment not found" ] ]
                  /\ pc' = [ pc EXCEPT ![t] = "done" ]
                  /\ UNCHANGED << PAYMENT_STORE, frame, applied, committed >>
           ELSE IF outcome = 400
             THEN /\ resp' = [ resp EXCEPT ![t] =
                      [ op |-> "webhook", type |-> event.type,
                        paymentId |-> event.paymentId, code |-> 400,
                        detail |-> "Unsupported event type" ] ]
                  /\ pc' = [ pc EXCEPT ![t] = "done" ]
                  /\ UNCHANGED << PAYMENT_STORE, frame, applied, committed >>
             ELSE LET ref == The(record) IN
                  /\ PAYMENT_STORE' = [ PAYMENT_STORE EXCEPT
                         ![ref] = SetStatus(PAYMENT_STORE[ref], The(new_status)) ]
                  /\ applied' = [ applied EXCEPT ![ref] = applied[ref] + 1 ]
                  /\ committed' = [ committed EXCEPT ![ref] = new_status ]
                  /\ frame' = [ frame EXCEPT ![t] =
                      [ op |-> "webhook", event |-> event, ref |-> ref,
                        new_status |-> The(new_status),
                        prior |-> [ status    |-> PAYMENT_STORE[ref].status,
                                    updatedAt |-> PAYMENT_STORE[ref].updatedAt ] ] ]
                  /\ pc' = [ pc EXCEPT ![t] = "webhook_updated" ]
                  /\ UNCHANGED resp
    /\ UNCHANGED << clock, issued, created >>

\* main.py:196: record["updatedAt"] = _now().  The frame keeps the time this
\* call wrote.
WebhookUpdated(t) ==
    /\ pc[t] = "webhook_updated"
    /\ \E now \in _now :
         LET ref == frame[t].ref IN
           /\ PAYMENT_STORE' = [ PAYMENT_STORE EXCEPT
                  ![ref] = SetUpdatedAt(PAYMENT_STORE[ref], now) ]
           /\ frame' = [ frame EXCEPT ![t] =
                  [ op |-> "webhook", event |-> frame[t].event, ref |-> ref,
                    new_status |-> frame[t].new_status, stamp |-> now ] ]
           /\ clock' = now
    /\ pc' = [ pc EXCEPT ![t] = "webhook_return" ]
    /\ UNCHANGED << resp, issued, created, applied, committed >>

\* Mutant of WebhookReturn: the orderId of the event is stored with the
\* record.
WebhookReturn_persist(t) ==
    /\ pc[t] = "webhook_return"
    /\ PAYMENT_STORE' = StorePut(frame[t].event.paymentId,
                            [ PAYMENT_STORE[frame[t].ref] EXCEPT
                                !.orderId = The(frame[t].event.orderId) ])
    /\ resp' = [ resp EXCEPT ![t] =
         [ op |-> "webhook", type |-> frame[t].event.type,
           paymentId |-> frame[t].event.paymentId, code |-> 200,
           body |-> PaymentIntent(PAYMENT_STORE[frame[t].ref]),
           wrote |-> [ status |-> frame[t].new_status, updatedAt |-> frame[t].stamp ] ] ]
    /\ pc' = [ pc EXCEPT ![t] = "done" ]
    /\ frame' = [ frame EXCEPT ![t] = Idle ]
    /\ UNCHANGED << clock, issued, created, applied, committed >>

\* main.py:200-201: PAYMENT_STORE[event.paymentId] = record puts the dict the
\* store already holds under that key back under it, and the handler returns
\* PaymentIntent(**record).
WebhookReturn(t) ==
    /\ pc[t] = "webhook_return"
    /\ PAYMENT_STORE' = StorePut(frame[t].event.paymentId, PAYMENT_STORE[frame[t].ref])
    /\ resp' = [ resp EXCEPT ![t] =
         [ op |-> "webhook", type |-> frame[t].event.type,
           paymentId |-> frame[t].event.paymentId, code |-> 200,
           body |-> PaymentIntent(PAYMENT_STORE[frame[t].ref]),
           wrote |-> [ status |-> frame[t].new_status, updatedAt |-> frame[t].stamp ] ] ]
    /\ pc' = [ pc EXCEPT ![t] = "done" ]
    /\ frame' = [ frame EXCEPT ![t] = Idle ]
    /\ UNCHANGED << clock, issued, created, applied, committed >>

(* -------------------------------- Spec -------------------------------- *)

Next ==
    \/ \E t \in Requests : CreateBegin(t)
    \/ \E t \in Requests : CreateStore(t)
    \/ \E t \in Requests : CreateReturn(t)
    \/ \E t \in Requests : get_payment(t)
    \/ \E t \in Requests : WebhookStatus(t)
    \/ \E t \in Requests : WebhookUpdated(t)
    \/ \E t \in Requests : WebhookReturn(t)

Spec == Init /\ [][Next]_vars

(* ======================================================================= *)
(* Properties                                                              *)
(* ======================================================================= *)

\* The transition table of the specification: event type -> target status.
TableTarget(type) ==
    CASE type = "payment_intent.succeeded"  -> "succeeded"
      [] type = "payment_intent.failed"     -> "failed"
      [] type = "payment_intent.processing" -> "processing"
      [] type = "payment_intent.canceled"   -> "cancelled"
      [] type = "payment_intent.refunded"   -> "refunded"

\* The requests that are inside payment_webhook, past its checks, on id.
WebhooksInFlight(id) ==
    { t \in Requests : pc[t] \in { "webhook_updated", "webhook_return" }
                        /\ frame[t].ref = id }

\* The webhook requests on id that have returned the updated record.
WebhooksDone(id) ==
    { t \in Requests : resp[t].op = "webhook" /\ resp[t].code = 200
                        /\ resp[t].paymentId = id }

\* Request t takes its first step and is a call of the operation op.
Calls(t, op) ==
    /\ pc[t] = "new"
    /\ pc'[t] # "new"
    /\ (frame'[t].op = op \/ resp'[t].op = op)

\* The paymentId of the get that starts.
CalledId(t) == resp'[t].paymentId

\* The event type and the paymentId of the webhook call that starts.
CalledEvent(t) ==
    IF resp'[t].op = "none"
      THEN [ type |-> frame'[t].event.type, paymentId |-> frame'[t].event.paymentId ]
      ELSE [ type |-> resp'[t].type, paymentId |-> resp'[t].paymentId ]

(* C1: a webhook with a recognised event type on a stored intent is never  *)
(* refused, whatever the current status of the record, and its assignment  *)
(* leaves the status of the record equal to the target the table gives for *)
(* the event type.                                                         *)
C1_AnyStatusMovesToTarget ==
    [][ \A t \in Requests :
          /\ ( Calls(t, "webhook")
                /\ CalledEvent(t).type \in EventTypes
                /\ CalledEvent(t).paymentId \in DOMAIN PAYMENT_STORE )
              => ( /\ pc'[t] = "webhook_updated"
                   /\ resp'[t].op = "none"
                   /\ PAYMENT_STORE'[CalledEvent(t).paymentId].status
                         = TableTarget(CalledEvent(t).type) )
          /\ ( pc[t] = "webhook_return" /\ pc'[t] # "webhook_return" )
              => ( /\ resp'[t].code = 200
                   /\ resp'[t].wrote.status = TableTarget(resp'[t].type) )
      ]_vars

\* A record that a webhook left succeeded has been moved on to processing by
\* a second webhook.
C1_Witness ==
    \E t1 \in Requests, t2 \in Requests :
        /\ resp[t1].op = "webhook" /\ resp[t1].code = 200
        /\ resp[t1].body.status = "succeeded"
        /\ pc[t2] = "webhook_updated"
        /\ frame[t2].ref = resp[t1].paymentId
        /\ frame[t2].prior.status = "succeeded"
        /\ frame[t2].event.type = "payment_intent.processing"
        /\ PAYMENT_STORE[frame[t2].ref].status = "processing"

(* C2: every creation returns a record with status requires_confirmation,  *)
(* provider mockpay and createdAt = updatedAt, and a get of the returned   *)
(* id, with no webhook assignment on that id so far, succeeds and returns  *)
(* the nine fields the creation returned.                                  *)
C2_CreateThenGet ==
    \A t \in Requests :
        /\ resp[t].op = "create" =>
              /\ resp[t].code = 201
              /\ resp[t].body.status = "requires_confirmation"
              /\ resp[t].body.provider = "mockpay"
              /\ resp[t].body.createdAt = resp[t].body.updatedAt
              /\ created[resp[t].body.id] = resp[t].body
        /\ ( resp[t].op = "get" /\ resp[t].paymentId \in DOMAIN created
                /\ applied[resp[t].paymentId] = 0 ) =>
              /\ resp[t].code = 200
              /\ resp[t].body = created[resp[t].paymentId]
              /\ DOMAIN resp[t].body =
                    { "id", "orderId", "amount", "currency", "status", "provider",
                      "clientSecret", "createdAt", "updatedAt" }

\* A get has returned the record of a creation before any webhook touched
\* it, after a later creation has stamped a later time.
C2_Witness ==
    \E t \in Requests :
        /\ resp[t].op = "get" /\ resp[t].code = 200
        /\ applied[resp[t].paymentId] = 0
        /\ resp[t].body = created[resp[t].paymentId]
        /\ clock > resp[t].body.createdAt

\* The requests whose creation has stored its record.
CreationsStored ==
    { t \in Requests : pc[t] = "create_return" \/ resp[t].op = "create" }

(* C3: the ids successful creations return are pairwise distinct, also     *)
(* when the creations run concurrently: the store holds one record for     *)
(* each creation that has stored its record (none overwrote another), each *)
(* under the id that creation returns.                                     *)
C3_DistinctIds ==
    /\ Cardinality(DOMAIN PAYMENT_STORE) = Cardinality(CreationsStored)
    /\ \A t1 \in Requests, t2 \in Requests :
          ( t1 # t2 /\ resp[t1].op = "create" /\ resp[t2].op = "create" )
            => resp[t1].body.id # resp[t2].body.id
    /\ \A t \in Requests :
          resp[t].op = "create" =>
            /\ resp[t].body.id \in DOMAIN PAYMENT_STORE
            /\ PAYMENT_STORE[resp[t].body.id].id = resp[t].body.id

\* Two creations that drew their ids before either stored its record have
\* both stored it.
C3_Witness ==
    \E t1 \in Requests, t2 \in Requests :
        /\ t1 # t2
        /\ pc[t1] = "create_return" /\ pc[t2] = "create_return"
        /\ Cardinality(DOMAIN PAYMENT_STORE) = 2

(* C4: once the webhook calls on an id have all returned, the status of    *)
(* the record is the target of one of the events applied, and the counter  *)
(* of status assignments on the id equals the number of those calls.       *)
C4_ConcurrentWebhooks ==
    \A id \in DOMAIN PAYMENT_STORE :
        ( WebhooksInFlight(id) = {} /\ WebhooksDone(id) # {} ) =>
            /\ applied[id] = Cardinality(WebhooksDone(id))
            /\ \E t \in WebhooksDone(id) :
                  PAYMENT_STORE[id].status = TableTarget(resp[t].type)

\* Two webhook calls with different event types ran concurrently on one id
\* (the first to return was given the status the other assigned) and both
\* have returned.
C4_Witness ==
    \E id \in DOMAIN PAYMENT_STORE :
        /\ WebhooksInFlight(id) = {}
        /\ applied[id] = 2
        /\ \E t1 \in WebhooksDone(id), t2 \in WebhooksDone(id) :
              /\ resp[t1].type # resp[t2].type
              /\ resp[t1].body.status = TableTarget(resp[t2].type)
              /\ PAYMENT_STORE[id].status = TableTarget(resp[t2].type)

(* C5: two webhook calls on one id serialize, the last to commit wins:     *)
(* once both have returned, the status and the updatedAt of the record are *)
(* the two values one of the calls wrote.                                  *)
C5_LastWriteWins ==
    \A id \in DOMAIN PAYMENT_STORE :
        ( WebhooksInFlight(id) = {} /\ Cardinality(WebhooksDone(id)) = 2
            /\ applied[id] = 2 ) =>
            \E t \in WebhooksDone(id) :
                /\ resp[t].wrote.status = PAYMENT_STORE[id].status
                /\ resp[t].wrote.updatedAt = PAYMENT_STORE[id].updatedAt

(* C6: a transition is atomic: no get and no other webhook call reads the  *)
(* record with the new status of a transition together with the updatedAt  *)
(* from before it.                                                         *)
C6_NoTornRead ==
    [][ \A g \in Requests :
          ( ( Calls(g, "get") \/ pc[g] = "webhook_return" )
              /\ pc'[g] = "done" /\ resp'[g].code = 200 ) =>
            ~ \E w \in Requests \ { g } :
                /\ pc[w] = "webhook_updated"
                /\ frame[w].ref = resp'[g].paymentId
                /\ frame[w].prior.status # frame[w].new_status
                /\ resp'[g].body.status = frame[w].new_status
                /\ resp'[g].body.updatedAt = frame[w].prior.updatedAt
      ]_vars

(* C7: a webhook on a paymentId that has no record fails with NotFound     *)
(* (404) whether or not its event type is recognised, and leaves the store *)
(* as it was.                                                              *)
C7_UnknownIdNotFound ==
    [][ \A t \in Requests :
          ( Calls(t, "webhook")
              /\ CalledEvent(t).paymentId \notin DOMAIN PAYMENT_STORE ) =>
            /\ pc'[t] = "done"
            /\ resp'[t].op = "webhook"
            /\ resp'[t].code = 404
            /\ PAYMENT_STORE' = PAYMENT_STORE
      ]_vars

\* With a record in the store, a webhook with a recognised type and one with
\* an unrecognised type, each on an id that has no record, were both
\* answered 404.
C7_Witness ==
    /\ DOMAIN PAYMENT_STORE # {}
    /\ \E t1 \in Requests, t2 \in Requests :
          /\ resp[t1].op = "webhook" /\ resp[t1].code = 404
          /\ resp[t1].type \in EventTypes
          /\ resp[t2].op = "webhook" /\ resp[t2].code = 404
          /\ resp[t2].type \notin EventTypes

(* C8: a webhook with an event type outside the five recognised ones on a  *)
(* paymentId that has a record fails with UnsupportedEvent (400) and       *)
(* leaves every record as it was.                                          *)
C8_UnsupportedEvent ==
    [][ \A t \in Requests :
          ( Calls(t, "webhook")
              /\ CalledEvent(t).type \notin EventTypes
              /\ CalledEvent(t).paymentId \in DOMAIN PAYMENT_STORE ) =>
            /\ pc'[t] = "done"
            /\ resp'[t].op = "webhook"
            /\ resp'[t].code = 400
            /\ PAYMENT_STORE' = PAYMENT_STORE
      ]_vars

\* A webhook with an unrecognised type was answered 400 on a record that an
\* earlier webhook had moved to succeeded, and the record is still so.
C8_Witness ==
    \E t \in Requests :
        /\ resp[t].op = "webhook" /\ resp[t].code = 400
        /\ resp[t].type \notin EventTypes
        /\ resp[t].paymentId \in DOMAIN PAYMENT_STORE
        /\ PAYMENT_STORE[resp[t].paymentId].status = "succeeded"
        /\ applied[resp[t].paymentId] = 1

(* C9: a get on an id that has no record fails with NotFound (404), a get *)
(* on an id that has one is answered 200, and a get, failing or not,       *)
(* leaves the store as it was.                                             *)
C9_GetReadOnly ==
    [][ \A t \in Requests :
          Calls(t, "get") =>
            /\ PAYMENT_STORE' = PAYMENT_STORE
            /\ pc'[t] = "done"
            /\ resp'[t].code = ( IF CalledId(t) \in DOMAIN PAYMENT_STORE
                                   THEN 200 ELSE 404 )
      ]_vars

\* With a record in the store, a get of an id that has no record was
\* answered 404 and a get of the record was answered 200.
C9_Witness ==
    /\ DOMAIN PAYMENT_STORE # {}
    /\ \E t1 \in Requests, t2 \in Requests :
          /\ resp[t1].op = "get" /\ resp[t1].code = 404
          /\ resp[t2].op = "get" /\ resp[t2].code = 200

\* The fields of a record that are set at its creation only.
Immutable(record) ==
    << record.id, record.orderId, record.amount, record.currency,
       record.provider, record.clientSecret, record.createdAt >>

(* C10: the id, orderId, amount, currency, provider, clientSecret and      *)
(* createdAt of every stored record are the ones its creation returned,    *)
(* and no step changes them.                                               *)
C10_ImmutableFields ==
    /\ \A id \in DOMAIN created :
          /\ id \in DOMAIN PAYMENT_STORE
          /\ Immutable(PAYMENT_STORE[id]) = Immutable(created[id])
    /\ \A id \in DOMAIN PAYMENT_STORE : PAYMENT_STORE[id].id = id

\* Two webhooks have rewritten a record, later than it was created.
C10_Witness ==
    \E id \in DOMAIN created :
        /\ applied[id] = 2
        /\ WebhooksInFlight(id) = {}
        /\ PAYMENT_STORE[id].status # "requires_confirmation"
        /\ PAYMENT_STORE[id].updatedAt > PAYMENT_STORE[id].createdAt

(* C11: the updatedAt of every stored record is its createdAt or later     *)
(* (the readings of the clock being ordered in time).                      *)
C11_UpdatedNotBeforeCreated ==
    \A id \in DOMAIN PAYMENT_STORE :
        PAYMENT_STORE[id].updatedAt >= PAYMENT_STORE[id].createdAt

\* A record created at a later reading of the clock than an earlier record
\* has been stamped by a webhook that has returned.
C11_Witness ==
    \E id \in DOMAIN PAYMENT_STORE :
        /\ PAYMENT_STORE[id].createdAt > 0
        /\ applied[id] = 1
        /\ WebhooksDone(id) # {}
        /\ PAYMENT_STORE[id].updatedAt >= PAYMENT_STORE[id].createdAt

\* Request t executes main.py:196.
Stamps(t) == pc[t] = "webhook_updated" /\ pc'[t] = "webhook_return"

(* C12, as stated: every successful webhook leaves the updatedAt of the    *)
(* record later than it was before that call.                              *)
C12_UpdatedAtAdvances ==
    [][ \A t \in Requests :
          Stamps(t) =>
            PAYMENT_STORE'[frame[t].ref].updatedAt > frame[t].prior.updatedAt
      ]_vars

(* C12, amended: a webhook that applies to a record the status the record  *)
(* already has leaves the status as it is, and every successful webhook    *)
(* stamps the record with the time it reads, which is the updatedAt from   *)
(* before the call or later: later only if the clock shows a later time.   *)
C12_UpdatedAtStamped ==
    [][ \A t \in Requests :
          /\ ( Calls(t, "webhook") /\ pc'[t] = "webhook_updated"
                /\ PAYMENT_STORE[CalledEvent(t).paymentId].status
                      = TableTarget(CalledEvent(t).type) )
              => PAYMENT_STORE'[CalledEvent(t).paymentId].status
                    = PAYMENT_STORE[CalledEvent(t).paymentId].status
          /\ Stamps(t) =>
                /\ PAYMENT_STORE'[frame[t].ref].updatedAt = frame'[t].stamp
                /\ frame'[t].stamp = clock'
                /\ PAYMENT_STORE'[frame[t].ref].updatedAt >= frame[t].prior.updatedAt
                /\ clock' > frame[t].prior.updatedAt
                      => PAYMENT_STORE'[frame[t].ref].updatedAt
                            > frame[t].prior.updatedAt
      ]_vars

\* The same event has been applied twice in sequence to one record, and the
\* second application has stamped a later time than the first.
C12_Witness ==
    \E t1 \in Requests, t2 \in Requests :
        /\ resp[t1].op = "webhook" /\ resp[t1].code = 200
        /\ resp[t1].body.status = TableTarget(resp[t1].type)
        /\ pc[t2] = "webhook_return"
        /\ frame[t2].ref = resp[t1].paymentId
        /\ frame[t2].event.type = resp[t1].type
        /\ applied[frame[t2].ref] = 2
        /\ PAYMENT_STORE[frame[t2].ref].status = resp[t1].body.status
        /\ frame[t2].stamp > resp[t1].body.updatedAt

(* C13: once a webhook on an id has returned the record, every later get  *)
(* of the id succeeds and returns the status of the latest transition      *)
(* committed on the id, a webhook committing its status when it assigns it *)
(* (main.py:195): the status of the webhook that returned, if no other     *)
(* webhook has assigned one.                                               *)
C13_GetReflectsCommitted ==
    [][ \A g \in Requests :
          ( Calls(g, "get") /\ Returned(CalledId(g)) # {} ) =>
            /\ resp'[g].code = 200
            /\ resp'[g].body.status = The(committed[CalledId(g)])
            /\ applied[CalledId(g)] = 1 =>
                  \A w \in Returned(CalledId(g)) :
                      resp'[g].body.status = TableTarget(resp[w].type)
      ]_vars

\* Create, then a webhook payment_intent.succeeded that has returned, then a
\* get of the id has returned status succeeded.
C13_Witness ==
    \E g \in Requests :
        /\ resp[g].op = "get" /\ resp[g].code = 200
        /\ resp[g].after # {}
        /\ \A w \in resp[g].after : resp[w].type = "payment_intent.succeeded"
        /\ resp[g].body.status = "succeeded"

\* The creations that have stored their record, each with its payload and
\* the id it stored the record under.
StoredCreations ==
    { [ payload |-> frame[t].payload, id |-> frame[t].ref ] :
        t \in { r \in Requests : pc[r] = "create_return" } }
    \cup
    { [ payload |-> resp[t].payload, id |-> resp[t].body.id ] :
        t \in { r \in Requests : resp[r].op = "create" } }

(* C14: a creation stores amount 100 when its payload has no amount and    *)
(* currency INR when its payload has no currency or an empty one; a value  *)
(* that is supplied, amount 0 included, is stored as it is.                *)
C14_Defaults ==
    \A c \in StoredCreations :
        /\ c.payload.amount = None => PAYMENT_STORE[c.id].amount = 100
        /\ c.payload.amount # None =>
              PAYMENT_STORE[c.id].amount = The(c.payload.amount)
        /\ c.payload.currency \in { None, Some("") } =>
              PAYMENT_STORE[c.id].currency = "INR"
        /\ c.payload.currency \notin { None, Some("") } =>
              PAYMENT_STORE[c.id].currency = The(c.payload.currency)

\* Three creations have stored their records: one without amount and currency, one with
\* amount 0 and an empty currency, one with an amount and a currency.
C14_Witness ==
    \E c1 \in StoredCreations, c2 \in StoredCreations, c3 \in StoredCreations :
        /\ c1.payload.amount = None /\ c1.payload.currency = None
        /\ c2.payload.amount = Some(0) /\ c2.payload.currency = Some("")
        /\ PAYMENT_STORE[c2.id].amount = 0
        /\ c3.payload.currency = Some("USD")
        /\ PAYMENT_STORE[c3.id].currency = "USD"

(* C15: the amount of every stored intent is non-negative, whatever the    *)
(* amounts the creations were given.                                       *)
C15_NonNegativeAmount ==
    \A id \in DOMAIN PAYMENT_STORE : PAYMENT_STORE[id].amount >= 0

(* C16: the status of every stored record is one of the seven values      *)
(* requires_payment_method, requires_confirmation, processing, succeeded,  *)
(* failed, cancelled, refunded.                                            *)
C16_StatusEnumerated ==
    \A id \in DOMAIN PAYMENT_STORE :
        PAYMENT_STORE[id].status \in
            { "requires_payment_method", "requires_confirmation", "processing",
              "succeeded", "failed", "cancelled", "refunded" }

\* A webhook payment_intent.canceled has left a record cancelled after
\* another webhook had left it refunded.
C16_Witness ==
    \E id \in DOMAIN PAYMENT_STORE :
        /\ PAYMENT_STORE[id].status = "cancelled"
        /\ applied[id] = 2
        /\ \E w \in WebhooksDone(id) : resp[w].body.status = "refunded"

\* A get of id has succeeded.
GetSucceeded(id) ==
    \E g \in Requests :
        resp[g].op = "get" /\ resp[g].code = 200 /\ resp[g].paymentId = id

(* C17: no step removes an id from the store, and a get or a webhook on an *)
(* id that a get has found is not answered NotFound (404).                 *)
C17_NeverDeleted ==
    [][ /\ DOMAIN PAYMENT_STORE \subseteq DOMAIN PAYMENT_STORE'
        /\ \A t \in Requests :
              /\ ( Calls(t, "get") /\ GetSucceeded(CalledId(t)) )
                    => resp'[t].code = 200
              /\ ( Calls(t, "webhook") /\ GetSucceeded(CalledEvent(t).paymentId) )
                    => ( resp'[t].op = "none" \/ resp'[t].code # 404 )
      ]_vars

\* A get has found a record, and a webhook that started after the get
\* returned has found the record too and has returned it.
C17_Witness ==
    \E g \in Requests, w \in Requests :
        /\ g < w
        /\ resp[g].op = "get" /\ resp[g].code = 200
        /\ resp[w].op = "webhook" /\ resp[w].code = 200
        /\ resp[w].paymentId = resp[g].paymentId

(* C18: the record a successful webhook returns has the status that is the *)
(* target of the event type of that call, also when other webhook calls on *)
(* the paymentId run concurrently.                                         *)
C18_ReturnsOwnStatus ==
    \A t \in Requests :
        ( resp[t].op = "webhook" /\ resp[t].code = 200 ) =>
            resp[t].body.status = TableTarget(resp[t].type)

\* Request t takes a step of payment_webhook.
WebhookSteps(t) ==
    \/ Calls(t, "webhook")
    \/ pc[t] \in { "webhook_updated", "webhook_return" } /\ pc'[t] # pc[t]

\* The paymentId of the webhook call of request t, which takes a step.
SteppingId(t) ==
    IF pc[t] = "new" THEN CalledEvent(t).paymentId ELSE frame[t].event.paymentId

(* C19: a step of a webhook adds no record and changes no record other than *)
(* the one keyed by its paymentId, and in that one it leaves the keys and  *)
(* every field but status and updatedAt as they were: the orderId stays    *)
(* the one of the creation, whatever orderId and metadata the event has.   *)
C19_OneRecordMutated ==
    [][ \A t \in Requests :
          WebhookSteps(t) =>
            /\ DOMAIN PAYMENT_STORE' = DOMAIN PAYMENT_STORE
            /\ \A id \in DOMAIN PAYMENT_STORE :
                  /\ id # SteppingId(t) => PAYMENT_STORE'[id] = PAYMENT_STORE[id]
                  /\ DOMAIN PAYMENT_STORE'[id] = DOMAIN PAYMENT_STORE[id]
                  /\ Immutable(PAYMENT_STORE'[id]) = Immutable(PAYMENT_STORE[id])
                  /\ id = SteppingId(t) =>
                        PAYMENT_STORE'[id].orderId = created[id].orderId
      ]_vars

\* A webhook whose event carries orderId ord-2 has returned the record of
\* an intent created for ord-1, which is still for ord-1, and another record
\* of the store is as its creation left it.
C19_Witness ==
    \E w \in Requests, c \in Requests :
        /\ resp[w].op = "webhook" /\ resp[w].code = 200
        /\ EventOrderIds = { Some("ord-2") }
        /\ PAYMENT_STORE[resp[w].paymentId].orderId = "ord-1"
        /\ PAYMENT_STORE[resp[w].paymentId].status # "requires_confirmation"
        /\ resp[c].op = "create"
        /\ resp[c].body.id # resp[w].paymentId
        /\ PAYMENT_STORE[resp[c].body.id] = resp[c].body

(* C20: no stored record has status requires_payment_method, and a record  *)
(* has status requires_confirmation only as long as no webhook has         *)
(* assigned it a status.                                                   *)
C20_InitialStatusNotReentered ==
    \A id \in DOMAIN PAYMENT_STORE :
        /\ PAYMENT_STORE[id].status # "requires_payment_method"
        /\ PAYMENT_STORE[id].status = "requires_confirmation" <=> applied[id] = 0

\* A webhook payment_intent.failed has returned a record as failed, and
\* another record, which no webhook has touched, requires confirmation.
C20_Witness ==
    \E id1 \in DOMAIN PAYMENT_STORE, id2 \in DOMAIN PAYMENT_STORE :
        /\ applied[id1] = 1
        /\ \E w \in WebhooksDone(id1) : resp[w].type = "payment_intent.failed"
        /\ PAYMENT_STORE[id1].status = "failed"
        /\ applied[id2] = 0
        /\ PAYMENT_STORE[id2].status = "requires_confirmation"

====
